---- MODULE Spec2Model ----
(***************************************************************************)
(* Model of src/braze.py: the BrazeClient batcher (enqueue / flush), the   *)
(* BrazeUser and BrazeEvent records (as_dict / enqueue), the transport     *)
(* (requests.Session.post) and the log file as the environment.            *)
(*                                                                         *)
(* Python values are modelled as tagged records [ty, v] with v an integer: *)
(*   none, bool, int, str, datetime, and isostr (a str whose text is the   *)
(*   ISO-8601 rendering of datetime v, i.e. the result of v.isoformat()).  *)
(***************************************************************************)
EXTENDS Integers, Sequences, FiniteSets, TLC

\* ---------------------------------------------------------------- bounds
MaxBatchSize == 2      \* batch_size ranges over 1..MaxBatchSize
MaxRecords == 3        \* records appended to the queues in one run
MaxCalls == 2          \* as_dict calls made on one record

VARIABLES
    config,        \* BrazeClient.config: batch_size, auto_flush, send, pause
    log,           \* BrazeClient.log: "None" or "file"
    user_queue,    \* BrazeClient.user_queue
    event_queue,   \* BrazeClient.event_queue
    requests,      \* BrazeClient.requests: flush_time -> entry
    pc,            \* "idle" (between calls) or "loop" (at the while test of flush)
    frame,         \* locals of the running flush: flush_users, flush_events, flush_time, caller
    log_file,      \* blocks appended to the log file by the current / last call
    posts,         \* request bodies handed to s.post by the current / last call
    sleeps,        \* time.sleep calls made by the current / last call
    result,        \* outcome of the last call, once it is over
    enq_users,     \* history: users appended to user_queue, in order
    enq_events,    \* history: events appended to event_queue, in order
    removed_users, \* history: attribute lists of the iterations that pruned user_queue
    removed_events,\* history: event lists of the iterations that pruned event_queue
    iters,         \* history: the loop iterations of the current / last call
    entry,         \* history: the arguments of that call and the state it started from
    nflush,        \* history: flush invocations made by the current / last call
    retry          \* history: the body whose dispatch answered with an API error

VARIABLES
    rec,           \* a record in the hands of a caller: the object as_dict is called on
    made,          \* history: that record as its constructor left it
    outs           \* history: the mappings the as_dict calls on it returned, in order

serVars == <<rec, made, outs>>

vars == <<config, log, user_queue, event_queue, requests, pc, frame,
          log_file, posts, sleeps, result, enq_users, enq_events,
          removed_users, removed_events, iters, entry, nflush, retry>>

\* ------------------------------------------------------- Python values
None == [ty |-> "none", v |-> 0]
Bool(b) == [ty |-> "bool", v |-> IF b THEN 1 ELSE 0]
Str(c) == [ty |-> "str", v |-> c]
Datetime(t) == [ty |-> "datetime", v |-> t]

\* datetime.isoformat(): a str holding the canonical ISO-8601 text of d
isoformat(d) == [ty |-> "isostr", v |-> d.v]

\* isinstance(v, datetime)
IsDatetime(val) == val.ty = "datetime"

Min(a, b) == IF a <= b THEN a ELSE b

\* Python slices q[0:n] and q[n:] for n >= 0
SliceTo(q, n) == SubSeq(q, 1, Min(n, Len(q)))
SliceFrom(q, n) == SubSeq(q, n + 1, Len(q))

\* ------------------------------------------------------------- records
\* variant: every value is passed through as it is
TraitOut_PassThrough(val) == val
\* the per-value rule shared by both as_dict loops
TraitOut(val) ==
    IF val = None THEN None
    ELSE IF IsDatetime(val) THEN isoformat(val)
    ELSE val

\* BrazeUser.as_dict
UserAsDict(u) ==
    [k \in {"external_campaign_id", "update_existing_only"} \cup DOMAIN u.traits |->
        IF k \in DOMAIN u.traits THEN TraitOut(u.traits[k])
        ELSE IF k = "external_campaign_id" THEN u.external_id
        ELSE Bool(u.update_existing_only)]

\* the 'properties' sub-mapping of BrazeEvent.as_dict
EventProperties(e) == [k \in DOMAIN e.properties |-> TraitOut(e.properties[k])]

\* BrazeEvent.as_dict ("properties" is present only for a non-empty mapping)
EventAsDict(e) ==
    [external_campaign_id |-> e.external_id,
     name |-> e.name,
     time |-> IF IsDatetime(e.timestamp) THEN isoformat(e.timestamp) ELSE e.timestamp,
     has_properties |-> DOMAIN e.properties # {},
     properties |-> EventProperties(e)]

\* isinstance(obj, BrazeUser) / isinstance(obj, BrazeEvent)
IsBrazeUser(obj) == obj.type = "user"
\* variant: everything that is not a user passes for an event
IsBrazeEvent_AnyNonUser(obj) == obj.type # "user"
IsBrazeEvent(obj) == obj.type = "event"

\* datetime.utcnow(): the calls of one run fall within one reading of the clock,
\* so every flush of the run has the same flush_time
Now == 0

\* BrazeUser.__init__
NewUser(id, traits) ==
    [type |-> "user", external_id |-> Str(id), update_existing_only |-> FALSE,
     traits |-> traits]

\* BrazeEvent.__init__ (timestamp None becomes datetime.utcnow())
NewEvent(id, ts, props) ==
    [type |-> "event", external_id |-> Str(id), name |-> Str(0),
     timestamp |-> IF ts = None THEN Datetime(Now) ELSE ts,
     properties |-> props]

\* an object that is neither a BrazeUser nor a BrazeEvent
OtherObject == [type |-> "other"]

NextId == Len(enq_users) + Len(enq_events) + 1

\* the traits / properties of the record created as number id
TraitsOf(id) ==
    IF id % 3 = 1 THEN [k \in {"t"} |-> Datetime(0)]
    ELSE IF id % 3 = 2 THEN [k \in {"t"} |-> None]
    ELSE [k \in {} |-> None]

\* the objects a caller may pass to enqueue in the current state
Objects ==
    { NewUser(NextId, TraitsOf(NextId)), NewEvent(NextId, Datetime(0), TraitsOf(NextId)), OtherObject }

\* ------------------------------------------------------------ batcher
\* BrazeConfig values the client may be constructed with
Configs ==
    [batch_size : 1..MaxBatchSize, auto_flush : BOOLEAN, send : BOOLEAN, pause : {0, 1}]

\* self.log and config.pause are read by disjoint statements of flush (561-566,
\* 581-584, 598-599 and 602-603), so the two are varied together
Logs(c) == IF c.pause = 0 THEN {"None"} ELSE {"file"}

NoFrame == [flush_users |-> FALSE, flush_events |-> FALSE, flush_time |-> 0, caller |-> "none"]
NoRetry == [set |-> FALSE, body |-> <<>>, flush_users |-> FALSE, flush_events |-> FALSE]
\* the current call, if any, is not over
Running == [op |-> "running", raised |-> "none", returned |-> "None"]
NoEntry ==
    [op |-> "none", obj |-> "none", user_queue |-> <<>>, event_queue |-> <<>>,
     requests |-> [t \in {} |-> 0], flush_users |-> FALSE, flush_events |-> FALSE,
     expect |-> NoRetry]

\* no record is being looked at
NoRecord == [type |-> "none"]

\* BrazeClient.__init__
Init ==
    /\ config \in Configs
    /\ log \in Logs(config)
    /\ user_queue = <<>>
    /\ event_queue = <<>>
    /\ requests = [t \in {} |-> 0]
    /\ pc = "idle"
    /\ frame = NoFrame
    /\ log_file = <<>>
    /\ posts = <<>>
    /\ sleeps = 0
    /\ result = Running
    /\ enq_users = <<>>
    /\ enq_events = <<>>
    /\ removed_users = <<>>
    /\ removed_events = <<>>
    /\ iters = <<>>
    /\ entry = NoEntry
    /\ nflush = 0
    /\ retry = NoRetry
    /\ rec = NoRecord
    /\ made = NoRecord
    /\ outs = <<>>

\* variant: the while test does not pair each flag with its own queue
LoopCond_AnyQueue(fu, fe, uq, eq) == (fu \/ fe) /\ (uq # <<>> \/ eq # <<>>)
\* variant: the while test looks at the flags only
LoopCond_IgnoresQueues(fu, fe, uq, eq) == fu \/ fe
\* the test of the while loop of flush
LoopCond(fu, fe, uq, eq) == (fu /\ uq # <<>>) \/ (fe /\ eq # <<>>)

\* variant: a non-empty queue is drained whatever its flag
TakesFrom_IgnoresFlag(flag, q) == q # <<>>
\* "if flush_users and self.user_queue" / "if flush_events and self.event_queue"
TakesFrom(flag, q) == flag /\ q # <<>>

\* variant: the batch is the whole queue
BatchSize_WholeQueue(flag, q) == IF flag /\ q # <<>> THEN Len(q) ELSE 0
\* user_batch_size / event_batch_size of one iteration
BatchSize(flag, q) == IF TakesFrom(flag, q) THEN Min(Len(q), config.batch_size) ELSE 0

\* the list built by the for loop over queue[0:batch_size]
UserBatch(fu, uq) ==
    [i \in 1..Len(SliceTo(uq, BatchSize(fu, uq))) |-> UserAsDict(uq[i])]
EventBatch(fe, eq) ==
    [i \in 1..Len(SliceTo(eq, BatchSize(fe, eq))) |-> EventAsDict(eq[i])]

\* variant: events are sent only once the users are gone
RequestBody_UsersFirst(fu, fe, uq, eq) ==
    [api_key |-> "APIKEY",
     has_attributes |-> TakesFrom(fu, uq),
     attributes |-> IF TakesFrom(fu, uq) THEN UserBatch(fu, uq) ELSE <<>>,
     has_events |-> TakesFrom(fe, eq) /\ ~TakesFrom(fu, uq),
     events |-> IF TakesFrom(fe, eq) /\ ~TakesFrom(fu, uq) THEN EventBatch(fe, eq) ELSE <<>>]
\* request_body of one iteration
RequestBody(fu, fe, uq, eq) ==
    [api_key |-> "APIKEY",
     has_attributes |-> TakesFrom(fu, uq),
     attributes |-> IF TakesFrom(fu, uq) THEN UserBatch(fu, uq) ELSE <<>>,
     has_events |-> TakesFrom(fe, eq),
     events |-> IF TakesFrom(fe, eq) THEN EventBatch(fe, eq) ELSE <<>>]

\* variant: nothing is pruned
Prune_Nothing(q, n) == q
\* variant: pruning empties the queue
Prune_ClearsQueue(q, n) == IF n > 0 THEN <<>> ELSE q
\* variant: pruning drops the newest n records
Prune_FromBack(q, n) == IF n > 0 THEN SubSeq(q, 1, Len(q) - n) ELSE q
\* "if user_batch_size > 0: self.user_queue = self.user_queue[user_batch_size:]"
Prune(q, n) == IF n > 0 THEN SliceFrom(q, n) ELSE q

\* variant: the threshold has to be exceeded
AutoFlushDue_Strict(uq, eq) ==
    config.auto_flush /\ (Len(uq) > config.batch_size \/ Len(eq) > config.batch_size)
\* variant: the threshold alone decides
AutoFlushDue_IgnoresFlag(uq, eq) ==
    Len(uq) >= config.batch_size \/ Len(eq) >= config.batch_size
\* the auto-flush test at the end of enqueue
AutoFlushDue(uq, eq) ==
    config.auto_flush /\ (Len(uq) >= config.batch_size \/ Len(eq) >= config.batch_size)

\* "resp.get('error') is not None"
HasError(resp) == config.send /\ resp.error # "null"

\* r of "r = s.post(...)" with its parsed body: r.ok, r.status_code, resp.get('error')
Responses ==
    { [ok |-> TRUE, status |-> 201, error |-> "null"],
      [ok |-> FALSE, status |-> 400, error |-> "msg"] }

\* self.requests[flush_time] = {...}, then the 'ok', 'status', 'response' keys when sent
RequestEntry(body, t, sent) ==
    [request |-> body, url |-> "/users/track", timestamp |-> t, response |-> sent]

StoreRequest(t, ent) ==
    [k \in DOMAIN requests \cup {t} |-> IF k = t THEN ent ELSE requests[k]]

\* the blocks written to the log file by one iteration (none when self.log is None)
LogBlocks(body, sent) ==
    IF log = "None" THEN <<>>
    ELSE <<[kind |-> "request", body |-> body]>>
         \o [i \in 1..Len(sent) |-> [kind |-> "response", body |-> sent[i]]]

\* variant: the pause follows a physical dispatch only
Pauses_OnlyWhenSent == IF config.pause # 0 /\ config.send THEN 1 ELSE 0
\* "if self.config.pause: time.sleep(self.config.pause)"
Pauses == IF config.pause # 0 THEN 1 ELSE 0

\* one record of the iteration history
IterRecord(body, sent, outcome) ==
    [body |-> body, sent |-> sent, outcome |-> outcome,
     ulen |-> Len(user_queue), elen |-> Len(event_queue),
     ub |-> BatchSize(frame.flush_users, user_queue),
     eb |-> BatchSize(frame.flush_events, event_queue)]


\* a top-level call begins: the history of the previous call is dropped
CallStart(op, obj, fu, fe, expect) ==
    /\ iters' = <<>>
    /\ log_file' = <<>>
    /\ posts' = <<>>
    /\ sleeps' = 0
    /\ entry' = [op |-> op, obj |-> obj, user_queue |-> user_queue,
                 event_queue |-> event_queue, requests |-> requests,
                 flush_users |-> fu, flush_events |-> fe, expect |-> expect]
    /\ UNCHANGED serVars

\* variant: the flush that enqueue calls leaves the events alone
EnterFlush_AutoUsersOnly(fu, fe, caller) ==
    /\ frame' = [flush_users |-> fu, flush_events |-> fe /\ caller # "enqueue",
                 flush_time |-> Now, caller |-> caller]
    /\ pc' = "loop"
    /\ result' = Running
    /\ nflush' = 1
\* entering flush: "s = requests.Session(); flush_time = datetime.utcnow()"
EnterFlush(fu, fe, caller) ==
    /\ frame' = [flush_users |-> fu, flush_events |-> fe, flush_time |-> Now, caller |-> caller]
    /\ pc' = "loop"
    /\ result' = Running
    /\ nflush' = 1

\* BrazeClient.flush(flush_users, flush_events) called by the user of the client
Flush(fu, fe) ==
    /\ pc = "idle"
    /\ CallStart("flush", "none", fu, fe, retry)
    /\ EnterFlush(fu, fe, "flush")
    /\ retry' = NoRetry
    /\ UNCHANGED <<config, log, user_queue, event_queue, requests, enq_users,
                   enq_events, removed_users, removed_events>>

\* BrazeClient.enqueue(obj)
ClientEnqueue(obj) ==
    /\ CallStart("enqueue", obj.type, TRUE, TRUE, NoRetry)
    /\ IF ~IsBrazeUser(obj) /\ ~IsBrazeEvent(obj)
       THEN \* raise ValueError
            /\ result' = [op |-> "enqueue", raised |-> "ValueError", returned |-> "None"]
            /\ nflush' = 0
            /\ UNCHANGED <<config, log, user_queue, event_queue, requests, pc, frame,
                           enq_users, enq_events, removed_users, removed_events, retry>>
       ELSE /\ NextId <= MaxRecords
            /\ user_queue' = IF IsBrazeUser(obj) THEN Append(user_queue, obj) ELSE user_queue
            /\ event_queue' = IF IsBrazeUser(obj) THEN event_queue ELSE Append(event_queue, obj)
            /\ enq_users' = IF IsBrazeUser(obj) THEN Append(enq_users, obj) ELSE enq_users
            /\ enq_events' = IF IsBrazeUser(obj) THEN enq_events ELSE Append(enq_events, obj)
            /\ retry' = NoRetry
            /\ IF AutoFlushDue(user_queue', event_queue')
               THEN EnterFlush(TRUE, TRUE, "enqueue")
               ELSE /\ result' = [op |-> "enqueue", raised |-> "none", returned |-> "None"]
                    /\ nflush' = 0
                    /\ UNCHANGED <<pc, frame>>
            /\ UNCHANGED <<config, log, requests, removed_users, removed_events>>

Enqueue(obj) ==
    /\ pc = "idle"
    /\ ClientEnqueue(obj)

\* BrazeUser.enqueue(braze) / BrazeEvent.enqueue(braze): stored is self.braze
RecordEnqueue(obj, stored, braze) ==
    /\ pc = "idle"
    /\ IsBrazeUser(obj) \/ IsBrazeEvent(obj)
    /\ IF braze = "None" /\ stored = "None"
       THEN \* "return ValueError(...)": the exception object is returned, not raised
            /\ CallStart("record_enqueue", obj.type, FALSE, FALSE, NoRetry)
            /\ result' = [op |-> "record_enqueue", raised |-> "none", returned |-> "ValueError"]
            /\ nflush' = 0
            /\ UNCHANGED <<config, log, user_queue, event_queue, requests, pc, frame,
                           enq_users, enq_events, removed_users, removed_events, retry>>
       ELSE ClientEnqueue(obj)

\* variant: the body is posted whatever config.send says
Build_AlwaysPosts(body, sent, outcome) ==
    /\ pc = "loop"
    /\ LoopCond(frame.flush_users, frame.flush_events, user_queue, event_queue)
    /\ log_file' = log_file \o LogBlocks(body, sent)
    /\ requests' = StoreRequest(frame.flush_time, RequestEntry(body, frame.flush_time, sent))
    /\ posts' = Append(posts, body)
    /\ iters' = Append(iters, IterRecord(body, sent, outcome))
    /\ UNCHANGED <<config, log, enq_users, enq_events, entry, nflush, serVars>>

\* the part of a loop iteration up to the dispatch: build, log, record, post
Build(body, sent, outcome) ==
    /\ pc = "loop"
    /\ LoopCond(frame.flush_users, frame.flush_events, user_queue, event_queue)
    /\ log_file' = log_file \o LogBlocks(body, sent)
    /\ requests' = StoreRequest(frame.flush_time, RequestEntry(body, frame.flush_time, sent))
    /\ posts' = IF config.send THEN Append(posts, body) ELSE posts
    /\ iters' = Append(iters, IterRecord(body, sent, outcome))
    /\ UNCHANGED <<config, log, enq_users, enq_events, entry, nflush, serVars>>

\* the part of a loop iteration after a dispatch that did not raise: prune, pause
PruneAndPause(body) ==
    /\ user_queue' = Prune(user_queue, BatchSize(frame.flush_users, user_queue))
    /\ event_queue' = Prune(event_queue, BatchSize(frame.flush_events, event_queue))
    /\ removed_users' = IF BatchSize(frame.flush_users, user_queue) > 0
                        THEN removed_users \o body.attributes ELSE removed_users
    /\ removed_events' = IF BatchSize(frame.flush_events, event_queue) > 0
                         THEN removed_events \o body.events ELSE removed_events
    /\ sleeps' = sleeps + Pauses
    /\ UNCHANGED <<pc, frame, result, retry>>

\* the running call leaves flush by raising exc, which nothing up to the caller catches
Raise(exc) ==
    /\ pc' = "idle"
    /\ frame' = NoFrame
    /\ result' = [op |-> frame.caller, raised |-> exc, returned |-> "None"]
    /\ UNCHANGED <<user_queue, event_queue, sleeps, removed_users, removed_events>>

\* a loop iteration with send disabled
FlushIterDry ==
    LET body == RequestBody(frame.flush_users, frame.flush_events, user_queue, event_queue)
    IN  /\ ~config.send
        /\ Build(body, <<>>, "dry")
        /\ PruneAndPause(body)

\* a loop iteration whose dispatch answers without an error field
FlushIterSent(r) ==
    LET body == RequestBody(frame.flush_users, frame.flush_events, user_queue, event_queue)
    IN  /\ config.send
        /\ ~HasError(r)
        /\ Build(body, <<r>>, "sent")
        /\ PruneAndPause(body)

\* variant: the queues are pruned before the error field is looked at
FlushIterApiError_Pruned(r) ==
    LET body == RequestBody(frame.flush_users, frame.flush_events, user_queue, event_queue)
    IN  /\ config.send
        /\ HasError(r)
        /\ Build(body, <<r>>, "api_error")
        /\ user_queue' = Prune(user_queue, BatchSize(frame.flush_users, user_queue))
        /\ event_queue' = Prune(event_queue, BatchSize(frame.flush_events, event_queue))
        /\ pc' = "idle"
        /\ frame' = NoFrame
        /\ result' = [op |-> frame.caller, raised |-> "RequestException", returned |-> "None"]
        /\ retry' = [set |-> TRUE, body |-> body,
                     flush_users |-> frame.flush_users, flush_events |-> frame.flush_events]
        /\ UNCHANGED <<sleeps, removed_users, removed_events>>

\* variant: after an error answer the loop goes on with the queues as they are
FlushIterApiError_Retries(r) ==
    LET body == RequestBody(frame.flush_users, frame.flush_events, user_queue, event_queue)
    IN  /\ config.send
        /\ HasError(r)
        /\ Build(body, <<r>>, "api_error")
        /\ UNCHANGED <<user_queue, event_queue, sleeps, removed_users, removed_events,
                       pc, frame, result, retry>>

\* a loop iteration whose dispatch answers with a non-null error field
FlushIterApiError(r) ==
    LET body == RequestBody(frame.flush_users, frame.flush_events, user_queue, event_queue)
    IN  /\ config.send
        /\ HasError(r)
        /\ Build(body, <<r>>, "api_error")
        /\ Raise("RequestException")
        /\ retry' = [set |-> TRUE, body |-> body,
                     flush_users |-> frame.flush_users, flush_events |-> frame.flush_events]

\* variant: the failure of the dispatch is caught and the loop goes on
FlushIterTransportError_Swallowed ==
    LET body == RequestBody(frame.flush_users, frame.flush_events, user_queue, event_queue)
    IN  /\ config.send
        /\ Build(body, <<>>, "transport_error")
        /\ PruneAndPause(body)

\* variant: the batch is dropped from the queues although the dispatch raised
FlushIterTransportError_Prunes ==
    LET body == RequestBody(frame.flush_users, frame.flush_events, user_queue, event_queue)
    IN  /\ config.send
        /\ Build(body, <<>>, "transport_error")
        /\ user_queue' = Prune(user_queue, BatchSize(frame.flush_users, user_queue))
        /\ event_queue' = Prune(event_queue, BatchSize(frame.flush_events, event_queue))
        /\ pc' = "idle"
        /\ frame' = NoFrame
        /\ result' = [op |-> frame.caller, raised |-> "TransportError", returned |-> "None"]
        /\ UNCHANGED <<sleeps, removed_users, removed_events, retry>>

\* a loop iteration in which s.post or json.loads raises
FlushIterTransportError ==
    LET body == RequestBody(frame.flush_users, frame.flush_events, user_queue, event_queue)
    IN  /\ config.send
        /\ Build(body, <<>>, "transport_error")
        /\ Raise("TransportError")
        /\ UNCHANGED retry

\* the while test fails: "s.close()" and return
FlushReturn ==
    /\ pc = "loop"
    /\ ~LoopCond(frame.flush_users, frame.flush_events, user_queue, event_queue)
    /\ pc' = "idle"
    /\ frame' = NoFrame
    /\ result' = [op |-> frame.caller, raised |-> "none", returned |-> "None"]
    /\ UNCHANGED <<config, log, user_queue, event_queue, requests, log_file, posts,
                   sleeps, enq_users, enq_events, removed_users, removed_events, iters,
                   entry, nflush, retry, serVars>>

Next ==
    \/ \E fu \in BOOLEAN, fe \in BOOLEAN : Flush(fu, fe)
    \/ \E obj \in Objects : Enqueue(obj)
    \/ \E obj \in Objects, stored \in {"None", "client"}, braze \in {"None", "client"} :
           RecordEnqueue(obj, stored, braze)
    \/ FlushIterDry
    \/ \E r \in Responses : FlushIterSent(r)
    \/ \E r \in Responses : FlushIterApiError(r)
    \/ FlushIterTransportError
    \/ FlushReturn

Spec == Init /\ [][Next]_vars

\* the steps of a flush that is running
FlushStep ==
    \/ FlushIterDry
    \/ \E r \in Responses : FlushIterSent(r)
    \/ \E r \in Responses : FlushIterApiError(r)
    \/ FlushIterTransportError
    \/ FlushReturn

\* flush is ordinary sequential code: once called it keeps executing, and
\* s.post and time.sleep come back (requests raises on a dead connection)
FairSpec == Spec /\ WF_vars(FlushStep)

\* ------------------------------------------- as_dict called by a caller
\* the keys and values a caller may give a record as traits / properties;
\* "external_campaign_id" is also the key as_dict gives the user's identity
SerKeys == {"t", "external_campaign_id"}
SerValues == {None, Datetime(0), Datetime(1), Str(0)}
SerTraits == UNION { [K -> SerValues] : K \in SUBSET SerKeys }

\* the records a caller may construct
SerRecords ==
    { NewUser(1, tr) : tr \in SerTraits }
    \cup { NewEvent(1, ts, tr) : ts \in {None, Datetime(1), Str(0)}, tr \in SerTraits }

\* a record has been constructed and enqueued on a fresh client that does not flush
SerInit ==
    /\ config = [batch_size |-> MaxBatchSize, auto_flush |-> FALSE, send |-> FALSE, pause |-> 0]
    /\ log = "None"
    /\ rec \in SerRecords
    /\ made = rec
    /\ outs = <<>>
    /\ user_queue = IF IsBrazeUser(rec) THEN <<rec>> ELSE <<>>
    /\ event_queue = IF IsBrazeEvent(rec) THEN <<rec>> ELSE <<>>
    /\ enq_users = user_queue
    /\ enq_events = event_queue
    /\ requests = [t \in {} |-> 0]
    /\ pc = "idle"
    /\ frame = NoFrame
    /\ log_file = <<>>
    /\ posts = <<>>
    /\ sleeps = 0
    /\ result = Running
    /\ removed_users = <<>>
    /\ removed_events = <<>>
    /\ iters = <<>>
    /\ entry = NoEntry
    /\ nflush = 0
    /\ retry = NoRetry

\* variant: as_dict converts the record's own values in place
SelfAfterAsDict_InPlace(r) ==
    IF IsBrazeUser(r) THEN [r EXCEPT !.traits = [k \in DOMAIN @ |-> TraitOut(@[k])]]
    ELSE [r EXCEPT !.properties = [k \in DOMAIN @ |-> TraitOut(@[k])]]
\* the record after as_dict: both methods assign to the fresh user_dict /
\* event_dict only and never to an attribute of self
SelfAfterAsDict(r) == r

\* user.as_dict() called by a caller
UserAsDictCall ==
    /\ IsBrazeUser(rec)
    /\ Len(outs) < MaxCalls
    /\ outs' = Append(outs, UserAsDict(rec))
    /\ rec' = SelfAfterAsDict(rec)
    /\ UNCHANGED <<made, vars>>

\* event.as_dict() called by a caller
EventAsDictCall ==
    /\ IsBrazeEvent(rec)
    /\ Len(outs) < MaxCalls
    /\ outs' = Append(outs, EventAsDict(rec))
    /\ rec' = SelfAfterAsDict(rec)
    /\ UNCHANGED <<made, vars>>

SerNext == UserAsDictCall \/ EventAsDictCall

SerSpec == SerInit /\ [][SerNext]_<<vars, serVars>>

TypeOK ==
    /\ pc \in {"idle", "loop"}
    /\ config \in Configs

\* ================================================================ claims
B == config.batch_size

\* the call whose history the state holds is over
CallOver == pc = "idle" /\ result.op # "running"

\* the lengths of the user / event lists of the bodies built by that call
AttrLens == [i \in 1..Len(iters) |-> Len(iters[i].body.attributes)]
EventLens == [i \in 1..Len(iters) |-> Len(iters[i].body.events)]

\* the iteration whose response carried a non-null error field
ApiErrorAt(i) == iters[i].sent # <<>> /\ iters[i].sent[1].error # "null"

\* a flush called with the arguments of the flush that the API error ended,
\* nothing having been called in between
RetriedFlush ==
    /\ entry.op = "flush"
    /\ entry.expect.set
    /\ entry.flush_users = entry.expect.flush_users
    /\ entry.flush_events = entry.expect.flush_events

\* C1: when a dispatch is answered with a non-null error field, the flush is
\* left at once with a RequestException, both queues are as long as they were
\* when the body was built, and the body built from the queues as they now
\* stand is the failed body; the first body a following flush with the same
\* arguments builds is that body again.
C1_ApiErrorKeepsBatch ==
    /\ \A i \in 1..Len(iters) :
           ApiErrorAt(i) =>
               /\ i = Len(iters)
               /\ pc = "idle"
               /\ result.raised = "RequestException"
               /\ Len(user_queue) = iters[i].ulen
               /\ Len(event_queue) = iters[i].elen
               /\ retry.set
               /\ retry.body = iters[i].body
               /\ RequestBody(retry.flush_users, retry.flush_events,
                              user_queue, event_queue) = iters[i].body
    /\ (result.raised = "RequestException") => (iters # <<>> /\ ApiErrorAt(Len(iters)))
    /\ (RetriedFlush /\ iters # <<>>) => iters[1].body = entry.expect.body

\* C1 witness: a flush retried after an API error has rebuilt the failed
\* body, a body with two users in it, and has got it through this time.
C1_Witness ==
    /\ RetriedFlush
    /\ CallOver
    /\ result.raised = "none"
    /\ iters # <<>>
    /\ iters[1].body = entry.expect.body
    /\ Len(entry.expect.body.attributes) = 2
    /\ iters[1].outcome = "sent"

\* the queue lengths right after the append of the enqueue call in progress
EnqULen == Len(entry.user_queue) + (IF entry.obj = "user" THEN 1 ELSE 0)
EnqELen == Len(entry.event_queue) + (IF entry.obj = "event" THEN 1 ELSE 0)
EnqAccepted == entry.op = "enqueue" /\ entry.obj \in {"user", "event"}

\* the enqueue of a record invokes flush once when auto_flush is on and a
\* queue has reached batch_size, and not at all otherwise
FlushIffThreshold ==
    EnqAccepted =>
        nflush = (IF config.auto_flush /\ (EnqULen >= B \/ EnqELen >= B) THEN 1 ELSE 0)

C3_NoAutoFlush ==
    ~config.auto_flush =>
        /\ EnqAccepted =>
               /\ nflush = 0
               /\ CallOver
               /\ result.raised = "none"
               /\ iters = <<>> /\ posts = <<>> /\ log_file = <<>> /\ sleeps = 0
               /\ requests = entry.requests
               /\ Len(user_queue) = EnqULen
               /\ Len(event_queue) = EnqELen
               /\ SubSeq(user_queue, 1, Len(entry.user_queue)) = entry.user_queue
               /\ SubSeq(event_queue, 1, Len(entry.event_queue)) = entry.event_queue
        /\ (DOMAIN requests = {}) =>
               (user_queue = enq_users /\ event_queue = enq_events)

\* C3 witness: three users enqueued with batch_size 1 and auto_flush off,
\* all three queued and no request recorded.
C3_Witness ==
    /\ ~config.auto_flush
    /\ B = 1
    /\ EnqAccepted /\ CallOver
    /\ Len(user_queue) = 3
    /\ DOMAIN requests = {}

CeilDiv(n, d) == (n + d - 1) \div d

\* a flush of the users only, with send off, that has returned
DryUserFlushDone ==
    /\ entry.op = "flush" /\ entry.flush_users /\ ~entry.flush_events
    /\ ~config.send
    /\ CallOver
    /\ Len(entry.user_queue) >= 1

\* C4: with send off, a flush of the users only that starts with N >= 1 users
\* builds ceil(N / batch_size) bodies; every body but the last has batch_size
\* users, the last has the rest; the user queue is empty afterwards.
C4_DryFlushBatches ==
    DryUserFlushDone =>
        LET N == Len(entry.user_queue)
            K == CeilDiv(N, B)
        IN  /\ result.raised = "none"
            /\ Len(iters) = K
            /\ \A i \in 1..Len(iters) :
                   AttrLens[i] = (IF i < K THEN B ELSE N - B * (K - 1))
            /\ user_queue = <<>>

\* C4 witness: three users and batch_size 2 gave bodies of 2 and 1 users.
C4_Witness ==
    /\ DryUserFlushDone
    /\ Len(entry.user_queue) = 3
    /\ B = 2
    /\ AttrLens = <<2, 1>>
    /\ user_queue = <<>>

\* C5: a flush called with flush_events false leaves the event queue as it
\* was and builds no body with an events list, and likewise for flush_users
\* false, the user queue and the attributes list.
C5_UnselectedQueueUntouched ==
    entry.op = "flush" =>
        /\ ~entry.flush_events =>
               /\ event_queue = entry.event_queue
               /\ \A i \in 1..Len(iters) :
                      ~iters[i].body.has_events /\ iters[i].body.events = <<>>
        /\ ~entry.flush_users =>
               /\ user_queue = entry.user_queue
               /\ \A i \in 1..Len(iters) :
                      ~iters[i].body.has_attributes /\ iters[i].body.attributes = <<>>

\* C5 witness: a flush of the users only has built a body and returned while
\* an event was queued, and the event is still there.
C5_Witness ==
    /\ entry.op = "flush" /\ entry.flush_users /\ ~entry.flush_events
    /\ CallOver
    /\ iters # <<>>
    /\ entry.event_queue # <<>>
    /\ event_queue = entry.event_queue

\* C6: a flush called while both queues are empty does nothing: it builds no
\* body, leaves the requests mapping and the log file as they were, posts
\* nothing, does not sleep, and both queues stay empty.
C6_EmptyFlushNoOp ==
    (entry.op = "flush" /\ entry.user_queue = <<>> /\ entry.event_queue = <<>>) =>
        /\ iters = <<>>
        /\ requests = entry.requests
        /\ log_file = <<>>
        /\ posts = <<>>
        /\ sleeps = 0
        /\ user_queue = <<>>
        /\ event_queue = <<>>
        /\ result.raised = "none"

\* C6 witness: flush() has returned on a client whose queues were empty and
\* whose requests mapping, filled by an earlier flush, is what it was.
C6_Witness ==
    /\ entry.op = "flush" /\ entry.flush_users /\ entry.flush_events
    /\ entry.user_queue = <<>> /\ entry.event_queue = <<>>
    /\ CallOver
    /\ DOMAIN entry.requests # {}
    /\ requests = entry.requests

\* C7: enqueue of an object that is neither a BrazeUser nor a BrazeEvent
\* raises ValueError, leaves both queues and the requests mapping as they
\* were and invokes no flush; nothing but records is ever queued.
C7_BadObjectRejected ==
    /\ (entry.op = "enqueue" /\ entry.obj = "other") =>
           /\ CallOver
           /\ result.op = "enqueue"
           /\ result.raised = "ValueError"
           /\ user_queue = entry.user_queue
           /\ event_queue = entry.event_queue
           /\ requests = entry.requests
           /\ nflush = 0
           /\ iters = <<>> /\ posts = <<>> /\ log_file = <<>>
    /\ \A i \in 1..Len(user_queue) : user_queue[i].type = "user"
    /\ \A i \in 1..Len(event_queue) : event_queue[i].type = "event"

\* C7 witness: the enqueue of a foreign object has raised on a client with
\* auto_flush on, a user and an event queued and batch_size 2.
C7_Witness ==
    /\ entry.op = "enqueue" /\ entry.obj = "other"
    /\ result.raised = "ValueError"
    /\ config.auto_flush
    /\ Len(user_queue) = 1 /\ Len(event_queue) = 1

\* C8 as stated: enqueue() of a record that was given no client and holds
\* none ends by raising a ValueError to its caller.
C8_RecordEnqueueRaises ==
    entry.op = "record_enqueue" => result.raised = "ValueError"

\* C9: every body a flush builds, called directly or from enqueue, has at most
\* batch_size users and at most batch_size events; a list that is present has
\* as many entries as its queue held at that iteration, or batch_size if the
\* queue held more; the same bound holds for the bodies kept in requests.
C9_BatchBounded ==
    /\ \A i \in 1..Len(iters) :
           LET b == iters[i].body
           IN  /\ Len(b.attributes) <= B
               /\ Len(b.events) <= B
               /\ b.has_attributes =>
                      Len(b.attributes) = (IF iters[i].ulen <= B THEN iters[i].ulen ELSE B)
               /\ b.has_events =>
                      Len(b.events) = (IF iters[i].elen <= B THEN iters[i].elen ELSE B)
               /\ b.has_attributes \/ Len(b.attributes) = 0
               /\ b.has_events \/ Len(b.events) = 0
    /\ \A t \in DOMAIN requests :
           /\ Len(requests[t].request.attributes) <= B
           /\ Len(requests[t].request.events) <= B

\* C9 witness: an iteration found three users queued with batch_size 2 and
\* took two of them, together with the one event that was queued.
C9_Witness ==
    /\ B = 2
    /\ iters # <<>>
    /\ iters[1].ulen = 3
    /\ AttrLens[1] = 2
    /\ entry.op = "flush"

\* the records of a queue as the bodies carry them
UsersAsDicts(q) == [i \in 1..Len(q) |-> UserAsDict(q[i])]
EventsAsDicts(q) == [i \in 1..Len(q) |-> EventAsDict(q[i])]

\* C10: the user lists of the bodies that pruned the user queue, one after
\* the other, are the first users enqueued, in the order they were enqueued,
\* and the queue holds the users that follow them; likewise for the events.
C10_Fifo ==
    /\ Len(removed_users) <= Len(enq_users)
    /\ removed_users = UsersAsDicts(SubSeq(enq_users, 1, Len(removed_users)))
    /\ user_queue = SubSeq(enq_users, Len(removed_users) + 1, Len(enq_users))
    /\ Len(removed_events) <= Len(enq_events)
    /\ removed_events = EventsAsDicts(SubSeq(enq_events, 1, Len(removed_events)))
    /\ event_queue = SubSeq(enq_events, Len(removed_events) + 1, Len(enq_events))

\* C10 witness: three users have left the queue in two bodies, one of them
\* built by a flush that began after the first had been pruned.
C10_Witness ==
    /\ Len(removed_users) = 3
    /\ B = 2
    /\ Len(iters) = 1
    /\ AttrLens = <<1>>
    /\ removed_users = UsersAsDicts(enq_users)

\* C11 as stated: every body a flush builds is kept as an entry of requests
\* and no entry is replaced, so on a client whose requests mapping was empty
\* when the call began the mapping has one entry for each body built so far.
C11_RequestsAppendOnly ==
    (DOMAIN entry.requests = {}) => Cardinality(DOMAIN requests) = Len(iters)

\* the iteration history is that of one call: each iteration starts from the
\* queues the one before it left, and the queues are what the last one left
QueueAfter(i) ==
    IF i < Len(iters) THEN <<iters[i + 1].ulen, iters[i + 1].elen>>
    ELSE <<Len(user_queue), Len(event_queue)>>

\* C12: with send off nothing is ever posted and no call fails in flush, while
\* every iteration builds a body, stores it in requests without a response,
\* writes it to the log file if there is one, and removes from the queues
\* exactly the records it put in the body.
C12_DryRunNeverPosts ==
    ~config.send =>
        /\ posts = <<>>
        /\ result.raised \in {"none", "ValueError"}
        /\ \A i \in 1..Len(iters) :
               /\ iters[i].outcome = "dry"
               /\ iters[i].sent = <<>>
               /\ Len(iters[i].body.attributes) + Len(iters[i].body.events) >= 1
               /\ QueueAfter(i) = <<iters[i].ulen - Len(iters[i].body.attributes),
                                    iters[i].elen - Len(iters[i].body.events)>>
        /\ iters # <<>> =>
               \E t \in DOMAIN requests :
                   /\ requests[t].request = iters[Len(iters)].body
                   /\ requests[t].response = <<>>
        /\ (log = "file") =>
               log_file = [i \in 1..Len(iters) |-> [kind |-> "request", body |-> iters[i].body]]

\* C12 witness: a dry flush with a log file has built and logged two bodies,
\* emptied the queues and returned, with nothing posted.
C12_Witness ==
    /\ ~config.send
    /\ log = "file"
    /\ CallOver
    /\ Len(iters) = 2
    /\ Len(log_file) = 2
    /\ posts = <<>>
    /\ user_queue = <<>> /\ event_queue = <<>>

\* the iterations of the call that ran to their end
Completed == {i \in 1..Len(iters) : iters[i].outcome \in {"dry", "sent"}}

\* C13 as stated: with pause > 0 every body posted is followed by a sleep;
\* with pause = 0 there is no sleep.
C13_Original ==
    /\ config.pause > 0 => sleeps >= Len(posts)
    /\ config.pause = 0 => sleeps = 0

\* C13 amended: with pause > 0 flush sleeps once at the end of every loop
\* iteration that runs to its end, the last one included, whether the body
\* was posted or send is off; an iteration whose dispatch fails raises before
\* the sleep.  With pause = 0 flush never sleeps.
C13_PauseAfterIteration ==
    /\ config.pause > 0 => sleeps = Cardinality(Completed)
    /\ config.pause = 0 => sleeps = 0

\* C13 witness: with pause > 0 and send on a flush has posted two bodies and
\* returned, having slept twice.
C13_Witness ==
    /\ config.pause > 0
    /\ config.send
    /\ CallOver /\ result.raised = "none"
    /\ Len(posts) = 2
    /\ sleeps = 2

\* C14: one call posts each body it builds once and no record twice: the
\* bodies posted are the bodies built, in order, no two of them share a user
\* or an event, and an iteration answered with an error is the last of its call.
C14_NoRetry ==
    /\ posts = (IF config.send THEN [i \in 1..Len(iters) |-> iters[i].body] ELSE <<>>)
    /\ \A i \in 1..Len(iters) : ApiErrorAt(i) => (i = Len(iters) /\ pc = "idle")
    /\ \A i \in 1..Len(posts) : \A j \in 1..Len(posts) :
           i < j =>
               /\ \A a \in 1..Len(posts[i].attributes) : \A b \in 1..Len(posts[j].attributes) :
                      posts[i].attributes[a] # posts[j].attributes[b]
               /\ \A a \in 1..Len(posts[i].events) : \A b \in 1..Len(posts[j].events) :
                      posts[i].events[a] # posts[j].events[b]

\* C14 witness: the second dispatch of a flush was answered with an error and
\* the call is over with two bodies posted.
C14_Witness ==
    /\ config.send
    /\ CallOver
    /\ Len(posts) = 2
    /\ Len(iters) = 2
    /\ ApiErrorAt(2)
    /\ result.raised = "RequestException"

GivenMap == IF IsBrazeUser(made) THEN made.traits ELSE made.properties
OutMap(o) == IF IsBrazeUser(made) THEN o ELSE o.properties

\* C16: in every mapping as_dict returns, each trait / property key is present;
\* a datetime value appears as its ISO-8601 text, a None value as None, any
\* other value as it is.  A user's mapping always has external_campaign_id and
\* update_existing_only; an event's has external_campaign_id, name and time,
\* the time rendered by the same rule, and properties iff it was given any.
C16_AsDictRules ==
    \A i \in 1..Len(outs) :
        LET o == outs[i]
        IN  /\ \A k \in DOMAIN GivenMap :
                   /\ k \in DOMAIN OutMap(o)
                   /\ GivenMap[k].ty = "datetime" =>
                          OutMap(o)[k] = [ty |-> "isostr", v |-> GivenMap[k].v]
                   /\ GivenMap[k].ty = "none" => OutMap(o)[k] = [ty |-> "none", v |-> 0]
                   /\ GivenMap[k].ty \notin {"datetime", "none"} => OutMap(o)[k] = GivenMap[k]
            /\ IsBrazeUser(made) =>
                   /\ {"external_campaign_id", "update_existing_only"} \subseteq DOMAIN o
                   /\ "external_campaign_id" \notin DOMAIN made.traits =>
                          o["external_campaign_id"] = made.external_id
                   /\ o["update_existing_only"] = [ty |-> "bool", v |-> 0]
            /\ IsBrazeEvent(made) =>
                   /\ o.external_campaign_id = made.external_id
                   /\ o.name = made.name
                   /\ o.time = (IF made.timestamp.ty = "datetime"
                                THEN [ty |-> "isostr", v |-> made.timestamp.v]
                                ELSE made.timestamp)
                   /\ o.has_properties = (DOMAIN made.properties # {})
                   /\ DOMAIN o.properties = DOMAIN made.properties

\* C16 witness: an event given a datetime property and a None property has
\* been rendered with the ISO text, the explicit None and its time as ISO text.
C16_Witness ==
    /\ outs # <<>>
    /\ IsBrazeEvent(made)
    /\ made.timestamp = Datetime(1)
    /\ DOMAIN made.properties = SerKeys
    /\ made.properties["t"] = Datetime(1)
    /\ made.properties["external_campaign_id"] = None
    /\ outs[1].properties["t"] = isoformat(Datetime(1))
    /\ outs[1].properties["external_campaign_id"] = None
    /\ outs[1].time = isoformat(Datetime(1))

\* the queues the call was asked to flush are empty
RequestedEmpty ==
    /\ entry.flush_users => user_queue = <<>>
    /\ entry.flush_events => event_queue = <<>>

\* the call is over and, if nothing was raised, has emptied what it was to flush
FlushDone == CallOver /\ (result.raised = "none" => RequestedEmpty)

\* C17: a flush never runs more iterations than there were records queued
\* when its loop began, a flush that is running comes to its end, and one
\* that returns has emptied every queue it was asked to flush.
C17_FlushTerminates ==
    /\ [](iters # <<>> => Len(iters) <= iters[1].ulen + iters[1].elen)
    /\ []((CallOver /\ nflush = 1 /\ result.raised = "none") => RequestedEmpty)
    /\ (pc = "loop") ~> FlushDone

\* C17 witness: with batch_size 1 a flush of three queued users has returned
\* after three iterations with the queue empty.
C17_Witness ==
    /\ B = 1
    /\ entry.op = "flush" /\ entry.flush_users
    /\ Len(entry.user_queue) = 3
    /\ CallOver /\ result.raised = "none"
    /\ Len(iters) = 3
    /\ user_queue = <<>>

\* the i-th slice of up to batch_size elements of q
Slice(q, i) == SubSeq(q, (i - 1) * B + 1, IF i * B <= Len(q) THEN i * B ELSE Len(q))
HasSlice(q, i) == (i - 1) * B < Len(q)

\* flush() with both flags, called on the queues entry holds
FlushBoth == entry.op = "flush" /\ entry.flush_users /\ entry.flush_events

\* C18: in a flush of both queues the i-th body carries the i-th slice of up
\* to batch_size users and the i-th slice of up to batch_size events of the
\* queues the call found, a list being absent once its queue has no i-th
\* slice; a call that returns has built max(ceil(U/B), ceil(E/B)) bodies.
C18_CombinedDrain ==
    FlushBoth =>
        LET U == Len(entry.user_queue)
            E == Len(entry.event_queue)
            K == IF CeilDiv(U, B) >= CeilDiv(E, B) THEN CeilDiv(U, B) ELSE CeilDiv(E, B)
        IN  /\ Len(iters) <= K
            /\ (CallOver /\ result.raised = "none") => Len(iters) = K
            /\ \A i \in 1..Len(iters) :
                   /\ iters[i].body.has_attributes = HasSlice(entry.user_queue, i)
                   /\ iters[i].body.attributes = UsersAsDicts(Slice(entry.user_queue, i))
                   /\ iters[i].body.has_events = HasSlice(entry.event_queue, i)
                   /\ iters[i].body.events = EventsAsDicts(Slice(entry.event_queue, i))

\* C18 witness: two users and one event with batch_size 1 went out in two
\* bodies, the first with a user and the event, the second with a user only.
C18_Witness ==
    /\ FlushBoth
    /\ B = 1
    /\ Len(entry.user_queue) = 2 /\ Len(entry.event_queue) = 1
    /\ CallOver /\ result.raised = "none"
    /\ Len(iters) = 2
    /\ iters[1].body.has_attributes /\ iters[1].body.has_events
    /\ iters[2].body.has_attributes /\ ~iters[2].body.has_events

NoRepeats(q) == \A i \in 1..Len(q) : \A j \in 1..Len(q) : i # j => q[i] # q[j]

\* C20: every record enqueued is either still queued or was carried by
\* exactly one body of an iteration that ran to its end (dry, or answered
\* without an error), never both and never twice; an iteration whose dispatch
\* fails leaves the queues as they were and one that runs to its end removes
\* just the records of its body; so once a queue is empty the bodies of those
\* iterations hold every record enqueued on it exactly once.
C20_NoLossNoDuplicate ==
    /\ removed_users \o UsersAsDicts(user_queue) = UsersAsDicts(enq_users)
    /\ removed_events \o EventsAsDicts(event_queue) = EventsAsDicts(enq_events)
    /\ NoRepeats(removed_users \o UsersAsDicts(user_queue))
    /\ NoRepeats(removed_events \o EventsAsDicts(event_queue))
    /\ user_queue = <<>> => removed_users = UsersAsDicts(enq_users)
    /\ event_queue = <<>> => removed_events = EventsAsDicts(enq_events)
    /\ \A i \in 1..Len(iters) :
           IF iters[i].outcome \in {"dry", "sent"}
           THEN QueueAfter(i) = <<iters[i].ulen - Len(iters[i].body.attributes),
                                  iters[i].elen - Len(iters[i].body.events)>>
           ELSE /\ i = Len(iters)
                /\ QueueAfter(i) = <<iters[i].ulen, iters[i].elen>>

\* C20 witness: a flush ended by an API error was called again and has
\* returned; the queues are empty and the two users and the event enqueued
\* are each in the bodies that went through, once.
C20_Witness ==
    /\ RetriedFlush
    /\ CallOver /\ result.raised = "none"
    /\ Len(enq_users) = 2 /\ Len(enq_events) = 1
    /\ user_queue = <<>> /\ event_queue = <<>>
    /\ removed_users = UsersAsDicts(enq_users)
    /\ removed_events = EventsAsDicts(enq_events)

\* the last n elements of q
LastN(q, n) == SubSeq(q, Len(q) - n + 1, Len(q))

\* C21: when s.post or the parsing of its answer raises, the exception leaves
\* flush (and enqueue, if enqueue called it) with no further iteration; the
\* queues are as that iteration found them, the body built from them is the
\* body that failed, and what earlier iterations of the call removed is
\* still removed.
C21_TransportFailurePropagates ==
    /\ \A i \in 1..Len(iters) :
           iters[i].outcome = "transport_error" =>
               /\ i = Len(iters)
               /\ CallOver
               /\ result.raised = "TransportError"
               /\ result.op = entry.op
               /\ Len(user_queue) = iters[i].ulen
               /\ Len(event_queue) = iters[i].elen
               /\ RequestBody(entry.flush_users, entry.flush_events,
                              user_queue, event_queue) = iters[i].body
               /\ user_queue = LastN(enq_users, iters[i].ulen)
               /\ event_queue = LastN(enq_events, iters[i].elen)
               /\ Len(removed_users) = Len(enq_users) - iters[i].ulen
               /\ Len(removed_events) = Len(enq_events) - iters[i].elen
               /\ \A j \in 1..(i - 1) :
                      /\ iters[j].outcome = "sent"
                      /\ iters[j + 1].ulen = iters[j].ulen - Len(iters[j].body.attributes)
                      /\ iters[j + 1].elen = iters[j].elen - Len(iters[j].body.events)
    /\ result.raised = "TransportError" =>
           (iters # <<>> /\ iters[Len(iters)].outcome = "transport_error")

\* C21 witness: the first dispatch of a flush went through and the second
\* raised; the call is over, the first user is gone and the second is queued.
C21_Witness ==
    /\ Len(iters) = 2
    /\ iters[1].outcome = "sent"
    /\ iters[2].outcome = "transport_error"
    /\ result.raised = "TransportError"
    /\ Len(removed_users) = 1
    /\ Len(user_queue) = 1
    /\ Len(enq_users) = 2

\* C22: every body flush builds holds at least one record; it has an
\* attributes list exactly when the users were to be flushed and the user
\* queue was not empty, which is when the iteration, run to its end, removes
\* users, and then the list is not empty; likewise for events; the bodies kept
\* in requests are such bodies.
C22_NoEmptyRequest ==
    /\ \A i \in 1..Len(iters) :
           LET b == iters[i].body
           IN  /\ Len(b.attributes) + Len(b.events) >= 1
               /\ b.has_attributes = (Len(b.attributes) >= 1)
               /\ b.has_events = (Len(b.events) >= 1)
               /\ b.has_attributes = (entry.flush_users /\ iters[i].ulen >= 1)
               /\ b.has_events = (entry.flush_events /\ iters[i].elen >= 1)
               /\ iters[i].outcome \in {"dry", "sent"} =>
                      /\ b.has_attributes = (QueueAfter(i)[1] < iters[i].ulen)
                      /\ b.has_events = (QueueAfter(i)[2] < iters[i].elen)
    /\ \A t \in DOMAIN requests :
           LET b == requests[t].request
           IN  /\ Len(b.attributes) + Len(b.events) >= 1
               /\ b.has_attributes = (Len(b.attributes) >= 1)
               /\ b.has_events = (Len(b.events) >= 1)

\* C22 witness: a flush of the events only, called with users queued as
\* well, has built a body with an events list and no attributes list.
C22_Witness ==
    /\ entry.op = "flush" /\ ~entry.flush_users /\ entry.flush_events
    /\ iters # <<>>
    /\ iters[1].ulen >= 1
    /\ iters[1].body.has_events
    /\ ~iters[1].body.has_attributes
    /\ Len(iters[1].body.events) = 2

====
